---------------------------- MODULE Spec2Model ----------------------------
(***************************************************************************)
(* Model of check-apple-inventory.js: one run of the inventory check.      *)
(*                                                                         *)
(* Text (the storefront body, a title, an error message) is a sequence of  *)
(* tokens, each token a literal piece of text; the text is the             *)
(* concatenation of its tokens.  The alphabet is chosen so that every      *)
(* token holding '<' starts with it, every token holding '>' ends with it, *)
(* and no searched substring ("m4", "macbook air", a price, a tag) spans   *)
(* two tokens: a regular expression of the source is then decided exactly  *)
(* on the token sequence.                                                  *)
(***************************************************************************)
EXTENDS Naturals, Sequences, FiniteSets

VARIABLES
    pc,                 \* position of the run in checkAppleInventory
    webhookUrl,         \* process.env.DISCORD_WEBHOOK_URL
    emailConfigured,    \* process.env.EMAIL_API_KEY && process.env.EMAIL_TO
    serverBody,         \* body the storefront has still to send
    sentBody,           \* body the storefront has sent so far
    resStatus,          \* <<res.statusCode>> of the storefront response, None before
    data,               \* fetchUrl: let data
    html,               \* checkAppleInventory: const html
    availableProducts,  \* checkAppleInventory: let availableProducts
    error,              \* error.message of the error caught at line 106, None before
    gets,               \* GET requests issued to the storefront
    posts,              \* POSTs issued to the webhook, in order
    calls,              \* functions of the script entered so far
    console,            \* outcome lines written to the console
    exitCode,           \* <<status>> once the process has exited, None before
    fetched,            \* state of the promise fetchUrl returned
    delivery,           \* state of the promise sendDiscordNotification returned
    fixture             \* the fragments the body was rendered from, if any

vars == <<pc, webhookUrl, emailConfigured, serverBody, sentBody, resStatus,
          data, html, availableProducts, error, gets, posts, calls, console,
          exitCode, fetched, delivery, fixture>>

\* an absent value (null, undefined, not yet set) and a present one
None == <<>>
Some(x) == <<x>>

---------------------------------------------------------------------------
(* Bounds of the model. *)

\* longest body, in tokens, the matcher specification builds
MaxLen == 5
\* most product fragments in a body of the fragment specification
MaxFragments == 2

---------------------------------------------------------------------------
(* The token alphabet. *)

RefurbDivOpen == "<div class=\"refurb-product\">"
DivClose == "</div>"
ImgAltOpen == "<img alt=\""
ImgTitleOpen == "<img title=\""
AttrClose == "\">"

\* tokens holding the character '<' (each starts with it)
HasLT(t) == t \in {RefurbDivOpen, DivClose, "<h3>", "</h3>", "<h4>", "</h4>",
                   "<p>", "</p>", ImgAltOpen, ImgTitleOpen}

\* tokens holding the character '"'
HasQuote(t) == t \in {RefurbDivOpen, ImgAltOpen, ImgTitleOpen, AttrClose}

\* tokens holding the character '>' (each ends with it)
HasGT(t) == t \in {RefurbDivOpen, DivClose, "<h3>", "</h3>", "<h4>", "</h4>",
                   "<p>", "</p>", AttrClose}

\* the part of a token before its first '"'
QuotePrefix(t) ==
    CASE t = RefurbDivOpen -> <<"<div class=">>
      [] t = ImgAltOpen -> <<"<img alt=">>
      [] t = ImgTitleOpen -> <<"<img title=">>
      [] OTHER -> <<>>

\* \s of a regular expression, and what String.prototype.trim removes
IsSpace(t) == t \in {" ", "\n"}

\* what '.' of a regular expression does not match
IsLineTerminator(t) == t = "\n"

\* String.prototype.toLowerCase, token by token
ToLowerCase(t) ==
    CASE t \in {"MacBook Air", "MACBOOK AIR", "macbook air"} -> "macbook air"
      [] t \in {"M4", "m4"} -> "m4"
      [] OTHER -> t

\* str.includes(sub) for a substring that is one token
Includes(s, sub) == \E i \in 1..Len(s) : s[i] = sub

\* str.toLowerCase()
LowerCased(s) == [i \in 1..Len(s) |-> ToLowerCase(s[i])]

---------------------------------------------------------------------------
(* The matcher: checkAppleInventory, lines 20-83.  The lines 24-31           *)
(* (productMatches, m4Products) compute values nothing reads and are left  *)
(* out.                                                                    *)

Min(S) == CHOOSE x \in S : \A y \in S : x <= y

\* a || b on match results: <<>> is null, <<group>> a match with its group 1
OrElse(a, b) == IF a # <<>> THEN a ELSE b

\* /MacBook Air.*?M4|M4.*?MacBook Air/gi finds a match in s
M4MacBookAirRegexMatches(s) ==
    \E i, j \in 1..Len(s) :
        /\ i < j
        /\ \/ ToLowerCase(s[i]) = "macbook air" /\ ToLowerCase(s[j]) = "m4"
           \/ ToLowerCase(s[i]) = "m4" /\ ToLowerCase(s[j]) = "macbook air"
        /\ \A k \in (i + 1)..(j - 1) : ~IsLineTerminator(s[k])

\* the matches of /<div[^>]*class="[^"]*refurb[^"]*"[^>]*>[\s\S]*?<\/div>/gi
\* in s from position p on, in order
RECURSIVE ProductSectionsFrom(_, _)
ProductSectionsFrom(s, p) ==
    LET opens == {i \in p..Len(s) : s[i] = RefurbDivOpen}
    IN  IF opens = {} THEN <<>>
        ELSE LET i == Min(opens)
                 closes == {j \in (i + 1)..Len(s) : s[j] = DivClose}
             IN  IF closes = {} THEN <<>>
                 ELSE <<SubSeq(s, i, Min(closes))>>
                          \o ProductSectionsFrom(s, Min(closes) + 1)

ProductSections(s) == ProductSectionsFrom(s, 1)

\* the condition of lines 44-45 on a section
SectionHasProduct(sec) ==
    /\ Includes(LowerCased(sec), "m4") \/ Includes(sec, "M4")
    /\ Includes(LowerCased(sec), "macbook air")

\* sec.match(/<h3[^>]*>([^<]+)<\/h3>/), and the same for h4
HeadingMatch(sec, open, close) ==
    LET hits == {i \in 1..Len(sec) :
                    /\ sec[i] = open
                    /\ \E j \in (i + 2)..Len(sec) :
                          /\ sec[j] = close
                          /\ \A k \in (i + 1)..(j - 1) : ~HasLT(sec[k])}
    IN  IF hits = {} THEN <<>>
        ELSE LET i == Min(hits)
                 j == Min({j \in (i + 2)..Len(sec) : sec[j] = close})
             IN  <<SubSeq(sec, i + 1, j - 1)>>

\* sec.match(/title="([^"]*MacBook Air[^"]*)"/), and the same for alt
AttrMatch(sec, open) ==
    LET closing(i) == {k \in (i + 1)..Len(sec) : HasQuote(sec[k])}
        hits == {i \in 1..Len(sec) :
                    /\ sec[i] = open
                    /\ closing(i) # {}
                    /\ Includes(SubSeq(sec, i + 1, Min(closing(i)) - 1),
                                "MacBook Air")}
    IN  IF hits = {} THEN <<>>
        ELSE LET i == Min(hits)
                 k == Min(closing(i))
             IN  <<SubSeq(sec, i + 1, k - 1) \o QuotePrefix(sec[k])>>

\* sec.match(/>([^<]*MacBook Air[^<]*M4[^<]*)</)
TextMatch(sec) ==
    LET next(i) == {j \in (i + 1)..Len(sec) : HasLT(sec[j])}
        hits == {i \in 1..Len(sec) :
                    /\ HasGT(sec[i])
                    /\ next(i) # {}
                    /\ \E a, b \in (i + 1)..(Min(next(i)) - 1) :
                          a < b /\ sec[a] = "MacBook Air" /\ sec[b] = "M4"}
    IN  IF hits = {} THEN <<>>
        ELSE LET i == Min(hits)
             IN  <<SubSeq(sec, i + 1, Min(next(i)) - 1)>>

\* lines 48-52
TitleMatch(sec) ==
    OrElse(HeadingMatch(sec, "<h3>", "</h3>"),
    OrElse(HeadingMatch(sec, "<h4>", "</h4>"),
    OrElse(AttrMatch(sec, ImgTitleOpen),
    OrElse(AttrMatch(sec, ImgAltOpen),
           TextMatch(sec)))))

\* String.prototype.trim
RECURSIVE TrimStart(_)
TrimStart(s) ==
    IF s # <<>> /\ IsSpace(Head(s)) THEN TrimStart(Tail(s)) ELSE s

RECURSIVE TrimEnd(_)
TrimEnd(s) ==
    IF s # <<>> /\ IsSpace(s[Len(s)])
    THEN TrimEnd(SubSeq(s, 1, Len(s) - 1)) ELSE s

Trim(s) == TrimEnd(TrimStart(s))

\* str.replace(/\s+/g, ' ')
RECURSIVE CollapseSpaces(_)
CollapseSpaces(s) ==
    IF s = <<>> THEN <<>>
    ELSE IF IsSpace(Head(s))
         THEN <<" ">> \o CollapseSpaces(TrimStart(s))
         ELSE <<Head(s)>> \o CollapseSpaces(Tail(s))

\* line 54 with a fault: the trim call dropped
SectionTitleUntrimmed(sec) ==
    LET titleMatch == TitleMatch(sec)
    IN  CollapseSpaces(IF titleMatch # <<>> THEN titleMatch[1]
                       ELSE <<"M4", " ", "MacBook Air">>)

\* lines 54 and 62: the title of a section
SectionTitle(sec) ==
    LET titleMatch == TitleMatch(sec)
        title == IF titleMatch # <<>> THEN Trim(titleMatch[1])
                 ELSE <<"M4", " ", "MacBook Air">>
    IN  CollapseSpaces(title)

\* tokens /¥[\d,]+|￥[\d,]+/ matches, and tokens /\$[\d,]+/ matches
IsYenPrice(t) == t \in {"¥98,000", "¥128,800", "￥98,000"}
IsDollarPrice(t) == t \in {"$999"}

\* lines 57-59: the price of a section
SectionPrice(sec) ==
    LET yen == {i \in 1..Len(sec) : IsYenPrice(sec[i])}
        dollar == {i \in 1..Len(sec) : IsDollarPrice(sec[i])}
    IN  IF yen # {} THEN sec[Min(yen)]
        ELSE IF dollar # {} THEN sec[Min(dollar)]
        ELSE "Price not found"

\* lines 61-65 (the timestamp field is left out: nothing reads it)
SectionProduct(sec) == [title |-> SectionTitle(sec), price |-> SectionPrice(sec)]

\* lines 42-67: productSections.forEach
RECURSIVE CollectProducts(_)
CollectProducts(sections) ==
    IF sections = <<>> THEN <<>>
    ELSE (IF SectionHasProduct(Head(sections))
          THEN <<SectionProduct(Head(sections))>> ELSE <<>>)
         \o CollectProducts(Tail(sections))

\* lines 35-68
StructuredProducts(s) ==
    IF M4MacBookAirRegexMatches(s) THEN CollectProducts(ProductSections(s))
    ELSE <<>>

\* line 71 with a fault: || for &&; the toLowerCase calls dropped
HasTextMentionsEither(s) ==
    Includes(LowerCased(s), "m4") \/ Includes(LowerCased(s), "macbook air")
HasTextMentionsCaseSensitive(s) ==
    Includes(s, "M4") /\ Includes(s, "MacBook Air")

\* the condition of line 71
HasTextMentions(s) ==
    Includes(LowerCased(s), "m4") /\ Includes(LowerCased(s), "macbook air")

\* lines 75-79
PlaceholderProduct ==
    [title |-> <<"M4", " ", "MacBook Air", " ", "(detected)">>,
     price |-> "Check website for price"]

\* lines 33-81: availableProducts once the body is analysed
MatchProducts(s) ==
    LET structured == StructuredProducts(s)
    IN  IF HasTextMentions(s) /\ Len(structured) = 0
        THEN Append(structured, PlaceholderProduct)
        ELSE structured

\* line 83 with a fault: >= for >
IsAvailableAlways(products) == Len(products) >= 0

\* line 83
IsAvailable(products) == Len(products) > 0

---------------------------------------------------------------------------
(* The environment of a run. *)

\* values of DISCORD_WEBHOOK_URL: unset, not a URL, a URL
NoWebhook == ""
BadWebhook == "discord-webhook"
GoodWebhook == "https://discord.com/api/webhooks/1/token"
WebhookUrls == {NoWebhook, BadWebhook, GoodWebhook}

\* new URL(u) does not throw
IsUrl(u) == u = GoodWebhook

\* statuses the storefront answers with, and the webhook
StorefrontStatuses == {200, 201, 204, 299, 301, 404, 503}
WebhookStatuses == {200, 204, 404, 500}

\* `${res.statusCode}`: the decimal text of a status
StatusString(n) ==
    CASE n = 200 -> "200" [] n = 201 -> "201" [] n = 204 -> "204"
      [] n = 299 -> "299" [] n = 301 -> "301" [] n = 404 -> "404"
      [] n = 500 -> "500" [] n = 503 -> "503"

\* the bodies the storefront serves in a run
FixtureBody ==
    <<RefurbDivOpen, "<h3>", "MacBook Air", " ", "M4", "</h3>", "¥98,000",
      DivClose>>
NoStockBody == <<"<p>", "No refurbished Macs today", "</p>">>
MentionBody == <<"<p>", "m4", "\n", "macbook air", "</p>">>
ImageBody ==
    <<RefurbDivOpen, ImgAltOpen, "MacBook Air", " ", "M4", AttrClose, "$999",
      DivClose>>
SampleBodies == {FixtureBody, NoStockBody, MentionBody, ImageBody}

---------------------------------------------------------------------------
(* fetchUrl, lines 113-150. *)

\* line 139: the only status fetchUrl resolves on
HTTP_OK == 200

\* line 139 with a fault: any 2xx status resolves; only a 5xx status rejects
FetchRejectsNon2xx(status) == status < 200 \/ status >= 300
FetchRejectsServerErrors(status) == status >= 500

\* line 139
FetchRejects(status) == status # HTTP_OK

\* line 140: the message of the error fetchUrl rejects with
HttpErrorMessage(status) ==
    <<"HTTP ", StatusString(status), ": ", "statusMessage">>

\* line 135: data += chunk
AppendChunk(d, chunk) == d \o chunk

\* line 16 and lines 113-131: the GET is issued
FetchUrl ==
    /\ pc = "start"
    /\ pc' = "fetchUrl"
    /\ gets' = gets + 1
    /\ calls' = calls \cup {"fetchUrl"}
    /\ UNCHANGED <<webhookUrl, emailConfigured, serverBody, sentBody,
                   resStatus, data, html, availableProducts, error, posts,
                   console, exitCode, fetched, delivery, fixture>>

\* lines 131-132: the response callback
FetchResponse(status) ==
    /\ pc = "fetchUrl"
    /\ pc' = "response"
    /\ resStatus' = Some(status)
    /\ data' = <<>>
    /\ UNCHANGED <<webhookUrl, emailConfigured, serverBody, sentBody, html,
                   availableProducts, error, gets, posts, calls, console,
                   exitCode, fetched, delivery, fixture>>

\* lines 134-136: a chunk of k tokens arrives
FetchData(k) ==
    /\ pc = "response"
    /\ k \in 1..Len(serverBody)
    /\ data' = AppendChunk(data, SubSeq(serverBody, 1, k))
    /\ sentBody' = sentBody \o SubSeq(serverBody, 1, k)
    /\ serverBody' = SubSeq(serverBody, k + 1, Len(serverBody))
    /\ UNCHANGED <<pc, webhookUrl, emailConfigured, resStatus, html,
                   availableProducts, error, gets, posts, calls, console,
                   exitCode, fetched, delivery, fixture>>

\* lines 138-144: the end of the response; a rejection is caught at line 106
FetchEnd ==
    /\ pc = "response"
    /\ serverBody = <<>>
    /\ IF FetchRejects(resStatus[1])
       THEN /\ fetched' = "rejected"
            /\ error' = Some(HttpErrorMessage(resStatus[1]))
            /\ pc' = "catch"
            /\ html' = html
       ELSE /\ fetched' = "resolved"
            /\ html' = data
            /\ pc' = "analyze"
            /\ error' = error
    /\ UNCHANGED <<webhookUrl, emailConfigured, serverBody, sentBody,
                   resStatus, data, availableProducts, gets, posts, calls,
                   console, exitCode, delivery, fixture>>

\* lines 146-148: the request fails (DNS, TLS, connection) before a response
FetchTransportError ==
    /\ pc = "fetchUrl"
    /\ fetched' = "rejected"
    /\ error' = Some(<<"getaddrinfo ENOTFOUND www.apple.com">>)
    /\ pc' = "catch"
    /\ UNCHANGED <<webhookUrl, emailConfigured, serverBody, sentBody,
                   resStatus, data, html, availableProducts, gets, posts,
                   calls, console, exitCode, delivery, fixture>>

---------------------------------------------------------------------------
(* checkAppleInventory, lines 18-104. *)

\* lines 18-87 and 101-104: the body is analysed
Analyze ==
    /\ pc = "analyze"
    /\ LET products == MatchProducts(html)
       IN  /\ availableProducts' = products
           /\ IF IsAvailable(products)
              THEN /\ console' = console \cup {"M4 MacBook Air found"}
                   /\ pc' = "sendNotification"
              ELSE /\ console' = console \cup {"No M4 MacBook Air found"}
                   /\ pc' = "returned"
    /\ calls' = calls \cup {"match"}
    /\ UNCHANGED <<webhookUrl, emailConfigured, serverBody, sentBody,
                   resStatus, data, html, error, gets, posts, exitCode,
                   fetched, delivery, fixture>>

---------------------------------------------------------------------------
(* sendNotification and sendDiscordNotification, lines 152-224. *)

\* line 156 with a fault: the webhook is used without the check
DiscordConfiguredAlways(url) == TRUE

\* line 156
DiscordConfigured(url) == url # NoWebhook

\* line 199
WebhookAccepted(status) == status >= 200 /\ status < 300

\* line 177: the payload of the success message
SuccessMessage(products) == [kind |-> "success", content |-> products]

\* lines 89 and 152-171, with the synchronous part of sendDiscordNotification
\* (lines 173-215) and sendEmailNotification (lines 219-224); the lines 98-99
\* follow when nothing is awaited or what is awaited has resolved
SendNotification ==
    /\ pc = "sendNotification"
    /\ calls' = calls \cup {"sendNotification"}
                      \cup (IF DiscordConfigured(webhookUrl)
                            THEN {"sendDiscordNotification"} ELSE {})
                      \cup (IF emailConfigured
                            THEN {"sendEmailNotification"} ELSE {})
    /\ IF ~DiscordConfigured(webhookUrl)
       THEN \* no promise can reject: line 167 returns, or line 170 resolves
            /\ console' = console \cup
                   (IF emailConfigured THEN {"Notification sent"}
                    ELSE {"No notification methods configured",
                          "Notification sent"})
            /\ pc' = "returned"
            /\ UNCHANGED <<posts, error, delivery>>
       ELSE IF IsUrl(webhookUrl)
       THEN \* lines 195-215: the request is written
            /\ posts' = Append(posts, SuccessMessage(availableProducts))
            /\ pc' = "awaitDiscord"
            /\ delivery' = "pending"
            /\ UNCHANGED <<console, error>>
       ELSE \* line 182 throws in the executor: the promise is rejected
            /\ delivery' = "rejected"
            /\ error' = Some(<<"Invalid URL">>)
            /\ pc' = "catch"
            /\ UNCHANGED <<posts, console>>
    /\ UNCHANGED <<webhookUrl, emailConfigured, serverBody, sentBody,
                   resStatus, data, html, availableProducts, gets, exitCode,
                   fetched, fixture>>

\* lines 195-207: the webhook answers the success message
DiscordResponse(status) ==
    /\ pc = "awaitDiscord"
    /\ IF WebhookAccepted(status)
       THEN /\ delivery' = "resolved"
            /\ console' = console \cup {"Notification sent"}
            /\ pc' = "returned"
            /\ error' = error
       ELSE /\ delivery' = "rejected"
            /\ error' = Some(<<"Discord webhook failed: ", StatusString(status)>>)
            /\ pc' = "catch"
            /\ console' = console
    /\ UNCHANGED <<webhookUrl, emailConfigured, serverBody, sentBody,
                   resStatus, data, html, availableProducts, gets, posts,
                   calls, exitCode, fetched, fixture>>

\* lines 209-212: the success message's request fails
DiscordTransportError ==
    /\ pc = "awaitDiscord"
    /\ delivery' = "rejected"
    /\ error' = Some(<<"socket hang up">>)
    /\ pc' = "catch"
    /\ UNCHANGED <<webhookUrl, emailConfigured, serverBody, sentBody,
                   resStatus, data, html, availableProducts, gets, posts,
                   calls, console, exitCode, fetched, fixture>>

---------------------------------------------------------------------------
(* The catch block and sendErrorNotification, lines 106-110 and 226-261. *)

\* line 227
ErrorWebhookConfigured(url) == url # NoWebhook

\* line 229: the payload of the error message
ErrorMessage(errorMessage) == [kind |-> "error", content |-> errorMessage]

\* line 109: the status process.exit is called with
EXIT_FAILURE == 1

\* the status of a process that ends because its event loop is empty
EXIT_SUCCESS == 0

\* lines 106-109 and 226-253: the error is caught and reported.  Without a
\* webhook, or when line 234 throws (caught at line 257), nothing is awaited
\* and line 109 follows at once.
CatchError ==
    /\ pc = "catch"
    /\ calls' = calls \cup {"sendErrorNotification"}
    /\ IF ErrorWebhookConfigured(webhookUrl) /\ IsUrl(webhookUrl)
       THEN /\ posts' = Append(posts, ErrorMessage(error[1]))
            /\ pc' = "awaitErrorPost"
            /\ exitCode' = exitCode
       ELSE /\ pc' = "exited"
            /\ exitCode' = Some(EXIT_FAILURE)
            /\ posts' = posts
    /\ UNCHANGED <<webhookUrl, emailConfigured, serverBody, sentBody,
                   resStatus, data, html, availableProducts, error, gets,
                   console, fetched, delivery, fixture>>

\* line 251: the error message's request fails; the rejection is caught at
\* line 257 and line 109 follows
ErrorPostTransportError ==
    /\ pc = "awaitErrorPost"
    /\ pc' = "exited"
    /\ exitCode' = Some(EXIT_FAILURE)
    /\ UNCHANGED <<webhookUrl, emailConfigured, serverBody, sentBody,
                   resStatus, data, html, availableProducts, error, gets,
                   posts, calls, console, fetched, delivery, fixture>>

\* lines 248-250: the webhook answers the error message.  The callback only
\* listens for 'end'; it neither reads the response nor resumes it, and an
\* http.IncomingMessage that is not consumed never emits 'end': the promise
\* of line 247 stays pending whatever the status.
ErrorPostResponse(status) ==
    /\ pc = "awaitErrorPost"
    /\ pc' = "pending"
    /\ UNCHANGED <<webhookUrl, emailConfigured, serverBody, sentBody,
                   resStatus, data, html, availableProducts, error, gets,
                   posts, calls, console, exitCode, fetched, delivery,
                   fixture>>

\* line 264: nothing is left to run (checkAppleInventory has returned, or
\* it awaits a promise nothing will settle once the connection is closed):
\* the process ends
EventLoopEmpty ==
    /\ pc \in {"returned", "pending"}
    /\ pc' = "exited"
    /\ exitCode' = Some(EXIT_SUCCESS)
    /\ UNCHANGED <<webhookUrl, emailConfigured, serverBody, sentBody,
                   resStatus, data, html, availableProducts, error, gets,
                   posts, calls, console, fetched, delivery, fixture>>

---------------------------------------------------------------------------
(* A run of the script. *)

Init ==
    /\ pc = "start"
    /\ webhookUrl \in WebhookUrls
    /\ emailConfigured \in BOOLEAN
    /\ serverBody \in SampleBodies
    /\ sentBody = <<>>
    /\ resStatus = None
    /\ data = <<>>
    /\ html = <<>>
    /\ availableProducts = <<>>
    /\ error = None
    /\ gets = 0
    /\ posts = <<>>
    /\ calls = {}
    /\ console = {}
    /\ exitCode = None
    /\ fetched = "pending"
    /\ delivery = "none"
    /\ fixture = <<>>

Next ==
    \/ FetchUrl
    \/ \E status \in StorefrontStatuses : FetchResponse(status)
    \/ \E k \in 1..Len(serverBody) : FetchData(k)
    \/ FetchEnd
    \/ FetchTransportError
    \/ Analyze
    \/ SendNotification
    \/ \E status \in WebhookStatuses : DiscordResponse(status)
    \/ DiscordTransportError
    \/ CatchError
    \/ ErrorPostTransportError
    \/ \E status \in WebhookStatuses : ErrorPostResponse(status)
    \/ EventLoopEmpty

Spec == Init /\ [][Next]_vars

---------------------------------------------------------------------------
(* The matcher on its own: the run has fetched a body and analyses it. *)

\* the state of a run that has just fetched body b with status 200
Fetched(b) ==
    /\ pc = "analyze"
    /\ webhookUrl = NoWebhook
    /\ emailConfigured = FALSE
    /\ serverBody = <<>>
    /\ sentBody = b
    /\ resStatus = Some(HTTP_OK)
    /\ data = b
    /\ html = b
    /\ availableProducts = <<>>
    /\ error = None
    /\ gets = 1
    /\ posts = <<>>
    /\ calls = {"fetchUrl"}
    /\ console = {}
    /\ exitCode = None
    /\ fetched = "resolved"
    /\ delivery = "none"

\* the tokens of the bodies the matcher specification builds
MatcherTokens ==
    {"MacBook Air", "macbook air", "MACBOOK AIR", "M4", "m4", "\n",
     RefurbDivOpen, DivClose, "¥98,000"}

\* every body of at most n tokens
BodiesUpTo(n) == UNION {[1..k -> MatcherTokens] : k \in 0..n}

InitMatcher ==
    /\ fixture = <<>>
    /\ \E b \in BodiesUpTo(MaxLen) : Fetched(b)

NextMatcher == Analyze

SpecMatcher == InitMatcher /\ [][NextMatcher]_vars

---------------------------------------------------------------------------
(* The matcher on bodies rendered from product fragments. *)

\* heading texts that name the model and the variant
TitlePlain == <<"MacBook Air", " ", "M4">>
TitleReversed == <<"M4", " ", "MacBook Air">>
TitleLower == <<"macbook air", " ", "m4">>
TitlePadded == <<"\n", " ", "MacBook Air", " ", "M4", "\n">>
TitleDoubleSpace == <<"MacBook Air", " ", " ", "M4">>
TitleTwoLines == <<"MacBook Air", "\n", "M4">>
FixtureTitles ==
    {TitlePlain, TitleReversed, TitleLower, TitlePadded, TitleDoubleSpace,
     TitleTwoLines}

FixturePrices == {"¥98,000", "￥98,000", "$999"}

\* a fragment: the heading level, the heading text and the price
Fragments == [level : {"h3", "h4"}, title : FixtureTitles, price : FixturePrices]

\* the markup of a fragment
RenderFragment(f) ==
    <<RefurbDivOpen>>
        \o (IF f.level = "h3" THEN <<"<h3>">> ELSE <<"<h4>">>)
        \o f.title
        \o (IF f.level = "h3" THEN <<"</h3>">> ELSE <<"</h4>">>)
        \o <<f.price, DivClose>>

RECURSIVE Render(_)
Render(fs) ==
    IF fs = <<>> THEN <<>> ELSE RenderFragment(Head(fs)) \o Render(Tail(fs))

InitFragments ==
    \E n \in 1..MaxFragments :
        \E fs \in [1..n -> Fragments] :
            /\ fixture = fs
            /\ Fetched(Render(fs))

NextFragments == Analyze

SpecFragments == InitFragments /\ [][NextFragments]_vars

---------------------------------------------------------------------------
(* Properties of a run (specification Spec). *)

Exited == pc = "exited"
Is2xx(status) == status \in 200..299
SuccessPosts == {i \in 1..Len(posts) : posts[i].kind = "success"}
ErrorPosts == {i \in 1..Len(posts) : posts[i].kind = "error"}
\* the success message was written to the webhook and its delivery failed
SuccessPostFailed == SuccessPosts # {} /\ delivery = "rejected"

\* C1: in a run whose fetch succeeded and that found a match, a failed
\* webhook POST (transport error or non-2xx answer) is swallowed: the error
\* notification is never entered because of it and the run exits with 0.
C1_WebhookFailureSwallowed ==
    (fetched = "resolved" /\ IsAvailable(availableProducts) /\ SuccessPostFailed)
        => /\ "sendErrorNotification" \notin calls
           /\ Exited => exitCode = Some(0)

\* C2: a run issues at most one POST to the webhook, never both a success
\* message and an error message.
C2_AtMostOnePost ==
    /\ Len(posts) <= 1
    /\ SuccessPosts = {} \/ ErrorPosts = {}

\* C3: a run that has terminated after its fetch failed (non-2xx status or
\* transport error) has a non-zero exit status, also with a webhook URL
\* configured and whatever the webhook answered to the error notification;
\* a run that has terminated after its fetch succeeded and whose
\* notification did not fail has exit status 0.
C3_ExitStatus ==
    /\ (Exited /\ fetched = "rejected") => exitCode # Some(0)
    /\ (Exited /\ fetched = "resolved" /\ delivery # "rejected")
           => exitCode = Some(0)

C5_Non2xxTakesErrorPath ==
    (fetched # "pending" /\ resStatus # None /\ ~Is2xx(resStatus[1]))
        => /\ fetched = "rejected"
           /\ gets = 1
           /\ calls \cap {"match", "sendNotification",
                          "sendDiscordNotification"} = {}
           /\ SuccessPosts = {}
           /\ Includes(error[1], StatusString(resStatus[1]))
           /\ pc # "catch" => "sendErrorNotification" \in calls
           /\ \A i \in 1..Len(posts) : posts[i].content = error[1]

C5_Witness ==
    /\ Exited
    /\ resStatus = Some(503)
    /\ "sendErrorNotification" \in calls
    /\ Len(posts) = 1
    /\ posts[1] = ErrorMessage(<<"HTTP ", "503", ": ", "statusMessage">>)

\* C6: with no notification channel configured no POST is issued, on the
\* success path or the error path, and the exit status is 0 if the fetch
\* succeeded and non-zero if it failed.
C6_NoChannelNoPost ==
    (webhookUrl = NoWebhook /\ ~emailConfigured)
        => /\ posts = <<>>
           /\ (Exited /\ fetched = "resolved") => exitCode = Some(0)
           /\ (Exited /\ fetched = "rejected")
                  => (exitCode # None /\ exitCode # Some(0))

C6_Witness ==
    /\ Exited
    /\ webhookUrl = NoWebhook /\ ~emailConfigured
    /\ "sendNotification" \in calls
    /\ "No notification methods configured" \in console
    /\ exitCode = Some(0)

\* C10: with a webhook URL configured and a successful fetch, the success
\* message is POSTed if and only if the matcher produced a match result;
\* with an empty match list the run reports not available, issues no
\* webhook call and exits with status 0.
C10_SuccessPostIffMatch ==
    (webhookUrl = GoodWebhook /\ fetched = "resolved")
        => /\ \A i \in SuccessPosts :
                  /\ Len(availableProducts) >= 1
                  /\ posts[i] = SuccessMessage(availableProducts)
           /\ (Exited /\ Len(availableProducts) >= 1) => SuccessPosts # {}
           /\ ("match" \in calls /\ Len(availableProducts) = 0)
                  => /\ posts = <<>>
                     /\ "No M4 MacBook Air found" \in console
                     /\ "sendNotification" \notin calls
                     /\ Exited => exitCode = Some(0)

C10_Witness ==
    /\ Exited
    /\ webhookUrl = GoodWebhook
    /\ html = NoStockBody
    /\ "match" \in calls
    /\ availableProducts = <<>>
    /\ posts = <<>>

---------------------------------------------------------------------------
(* Properties of the matcher (specifications SpecMatcher, SpecFragments). *)

Analysed == "match" \in calls
ModelNames == {"MacBook Air", "macbook air", "MACBOOK AIR"}
VariantNames == {"M4", "m4"}
\* the model name and the variant both occur somewhere in s
BothOccur(s) ==
    /\ \E i \in 1..Len(s) : s[i] \in ModelNames
    /\ \E j \in 1..Len(s) : s[j] \in VariantNames
\* the model name and the variant occur on one line of s, in either order
OnOneLine(s) ==
    \E i, j \in 1..Len(s) :
        /\ s[i] \in ModelNames
        /\ s[j] \in VariantNames
        /\ \A k \in 1..Len(s) : (i < k /\ k < j) \/ (j < k /\ k < i) => s[k] # "\n"

\* C7 as claimed: when the step-1 check does not match, the matcher reports
\* zero matches.
C7_NoStep1NoMatch ==
    (Analysed /\ ~OnOneLine(html)) => availableProducts = <<>>

\* C7 as amended: when the body does not hold both the model name and the
\* variant (in any letter case) the matcher reports zero matches; when it
\* holds both, but nowhere on one line, the matcher reports exactly the
\* placeholder; the placeholder is never reported for a body that lacks
\* one of the two.
C7_NoMentionNoMatch ==
    Analysed
        => /\ ~BothOccur(html) => availableProducts = <<>>
           /\ (BothOccur(html) /\ ~OnOneLine(html))
                  => availableProducts = <<PlaceholderProduct>>

C7_Witness ==
    /\ Analysed
    /\ html = <<RefurbDivOpen, "MacBook Air", "¥98,000", DivClose>>
    /\ availableProducts = <<>>

\* C8: when the body holds the model name and the variant within the
\* window of the step-1 check (on one line), in either order and in any
\* letter case, the matcher reports at least one match result.
C8_Step1GivesMatch ==
    (Analysed /\ OnOneLine(html)) => Len(availableProducts) >= 1

C8_Witness ==
    /\ Analysed
    /\ html = <<"m4", "MACBOOK AIR">>
    /\ availableProducts = <<PlaceholderProduct>>

\* the match result a fragment stands for, with the title t
FragmentProduct(f, t) == [title |-> t, price |-> f.price]

\* a heading text with its leading and trailing white space removed and
\* every other run of white space replaced by one space
NormalTitle(t) ==
    CASE t \in {TitlePlain, TitlePadded, TitleDoubleSpace, TitleTwoLines}
             -> <<"MacBook Air", " ", "M4">>
      [] t = TitleReversed -> <<"M4", " ", "MacBook Air">>
      [] t = TitleLower -> <<"macbook air", " ", "m4">>

\* C9 as claimed: a body of product fragments yields one match result per
\* fragment, in order, each with exactly the fragment's heading text as
\* title and its price token as price, and no placeholder.
C9_ExactTitleAndPrice ==
    (Analysed /\ fixture # <<>>)
        => availableProducts =
               [i \in 1..Len(fixture) |->
                   FragmentProduct(fixture[i], fixture[i].title)]

\* C9 as amended: when the model name and the variant occur on one line
\* somewhere in the body, a body of product fragments yields one match
\* result per fragment, in order, each with the fragment's heading text,
\* trimmed and with every run of white space replaced by one space, as
\* title and its price token as price, and no placeholder; otherwise it
\* yields the placeholder alone. The body
\* <div class="refurb-product"><h3>MacBook Air M4</h3>¥98,000</div> yields
\* the single result with title "MacBook Air M4" and price "¥98,000".
C9_NormalTitleAndPrice ==
    (Analysed /\ fixture # <<>>)
        => /\ OnOneLine(html)
                  => availableProducts =
                         [i \in 1..Len(fixture) |->
                             FragmentProduct(fixture[i],
                                             NormalTitle(fixture[i].title))]
           /\ ~OnOneLine(html) => availableProducts = <<PlaceholderProduct>>
           /\ html = FixtureBody
                  => availableProducts =
                         <<[title |-> <<"MacBook Air", " ", "M4">>,
                            price |-> "¥98,000"]>>

C9_Witness ==
    /\ Analysed
    /\ html = FixtureBody
    /\ fixture = <<[level |-> "h3", title |-> TitlePlain, price |-> "¥98,000"]>>
    /\ availableProducts = <<[title |-> TitlePlain, price |-> "¥98,000"]>>

=============================================================================
